---- MODULE Spec2Model ----
(***************************************************************************)
(* A model of beancount.ingest.file: file() and move_xdev_file().          *)
(*                                                                         *)
(* file() walks the (filename, importers) pairs yielded by                 *)
(* identify.find_imports, resolves for each file one account, one date and *)
(* one destination path, validates the destination, appends a job, and     *)
(* after the loop either returns None (dry_run or has_errors) or moves     *)
(* every job with move_xdev_file (makedirs, copyfile, remove) and returns  *)
(* the jobs.                                                               *)
(*                                                                         *)
(* Representation.  A path is a sequence of its segments, an account is    *)
(* the sequence of its components, a date is <<year, month, day>>, and     *)
(* Python's None is the empty sequence.  What an importer answers is an    *)
(* input: it is drawn where the code makes the call.                       *)
(***************************************************************************)
EXTENDS Naturals, Sequences, FiniteSets, TLC

\* ------------------------------------------------------------------ bounds
\* Number of candidate files find_imports walks over.
MaxFiles == 2
\* Largest number of importers that match one file.
MaxImporters == 2

\* ------------------------------------------------------------ input domains
None == << >>

Accounts == { <<"Assets", "A">>, <<"Assets", "B">> }
AccountOpt == Accounts \cup {None}

\* What importer.file_date() may answer.
DateOpt == { None, <<2014, 6, 8>> }

\* What importer.file_name() may answer: a name, possibly with a directory
\* part.  No answer starts with a date, so line 115 never logs.
NameOpt == { None, <<"sub", "a_b.pdf">> }

\* The root destination directory given to file().
destination == <<"docs">>

FileIds == 1..MaxFiles

\* The candidate files, in the order find_imports walks them.
SrcBase(k) == IF k % 2 = 1 THEN "a b.pdf" ELSE "a_b.pdf"
FilenameOf == [k \in FileIds |-> << "dl" \o ToString(k), SrcBase(k) >>]
Filename(k) == FilenameOf[k]

\* The content of source file k, and the other contents a file can hold.
ContentOf == [k \in FileIds |-> "content" \o ToString(k)]
Content(k) == ContentOf[k]
OldContent == "old"
PartialContent == "partial"

\* datetime.datetime.fromtimestamp(path.getmtime(filename)).date()
MtimeDate(k) == <<2014, 7, 1>>

\* A file that may be in the destination tree before the run.
PreExisting == << "docs", "Assets", "A", "2014-06-08.a_b.pdf" >>

\* ------------------------------------------------------------------ helpers
\* path.basename
Basename(p) == p[Len(p)]

\* path.dirname
Dirname(p) == SubSeq(p, 1, Len(p) - 1)

\* os.makedirs creates the directory and every missing parent.
Prefixes(d) == { SubSeq(d, 1, j) : j \in 1..Len(d) }

\* path.normpath on a sequence of segments: "." is dropped, ".." folds.
RECURSIVE NormFrom(_, _)
NormFrom(acc, rest) ==
    IF rest = << >> THEN acc
    ELSE IF Head(rest) = "." THEN NormFrom(acc, Tail(rest))
    ELSE IF Head(rest) = ".." /\ acc # << >> /\ acc[Len(acc)] # ".."
         THEN NormFrom(SubSeq(acc, 1, Len(acc) - 1), Tail(rest))
    ELSE NormFrom(Append(acc, Head(rest)), Tail(rest))

Normpath(p) == NormFrom(<< >>, p)

\* misc_utils.idify: whitespace and funky characters become underscores.
Idify(s) == IF s = "a b.pdf" THEN "a_b.pdf" ELSE s

\* '{0:%Y-%m-%d}'
Pad2(x) == IF x < 10 THEN "0" \o ToString(x) ELSE ToString(x)
FormatDate(d) == ToString(d[1]) \o "-" \o Pad2(d[2]) \o "-" \o Pad2(d[3])

\* A dict-like file table: write and remove.
Put(f, p, c) == [q \in (DOMAIN f) \cup {p} |-> IF q = p THEN c ELSE f[q]]
Remove(f, p) == [q \in (DOMAIN f) \ {p} |-> f[q]]

ImporterNameOf == [j \in 1..MaxImporters |-> "importer" \o ToString(j)]
ImporterName(j) == ImporterNameOf[j]

\* ------------------------------------------------------------------- state
VARIABLES
    dry_run, mkdirs, overwrite, idify, logfile,   \* the arguments of file()
    files, dirs,          \* the filesystem: path -> content, existing directories
    files0, dirs0,        \* the filesystem when file() was called
    pc,                   \* "resolve", "move", "remove", "done", "raised"
    n,                    \* the last candidate find_imports has yielded
    loc,                  \* the locals of the resolution loop's body
    jobs, has_errors,     \* file()'s jobs and has_errors
    errors,               \* what logging.error has been called with
    report,               \* what has been written to logfile
    i,                    \* the move loop's position in jobs (1-based)
    performed,            \* the moves move_xdev_file has completed
    result,               \* what file() returned
    failed,               \* the job whose move raised, 0 while none has
    run,                  \* 1 in the first call of file(), 2 in a second one
    first                 \* in a second call: what the first call returned

args == << dry_run, mkdirs, overwrite, idify, logfile >>
calls == << run, first >>
vars == << dry_run, mkdirs, overwrite, idify, logfile, files, dirs, files0, dirs0,
           pc, n, loc, jobs, has_errors, errors, report, i, performed, result,
           failed, run, first >>

\* ----------------------------------------------------- resolution (pure part)
\* file_accounts = set(importer.file_account(file) ...); discard(None)
FileAccountsOfPrimary(accts) == IF accts = << >> THEN {} ELSE {accts[1]} \ {None}
FileAccounts(accts) == { accts[j] : j \in DOMAIN accts } \ {None}

\* Lines 103-108: the date and where it came from.
ResolveDateFromMtime(fdate, mtime_date) == mtime_date
ResolveDate(fdate, mtime_date) == IF fdate = None THEN mtime_date ELSE fdate
DateSource(fdate) == IF fdate = None THEN "extracted" ELSE "mtime"

\* Lines 112-124: the cleaned basename.
CleanFilename(fname, name) == IF fname = None THEN name ELSE fname
CleanBasename(fname, name, do_idify) ==
    LET base == Basename(CleanFilename(fname, name))
    IN  IF do_idify THEN Idify(base) ELSE base

\* Line 127
NewFilenameNameFirst(date, clean_basename) == clean_basename \o "." \o FormatDate(date)
NewFilename(date, clean_basename) == FormatDate(date) \o "." \o clean_basename

\* Lines 130-132
NewFullname(file_account, new_filename) ==
    Normpath(destination \o file_account \o << new_filename >>)

\* Every date and every cleaned basename the inputs can lead to, and the
\* destination of each (account, date, basename), computed once.
Dates == (DateOpt \ {None}) \cup { MtimeDate(k) : k \in FileIds }
Basenames ==
    LET raw == { Basename(Filename(k)) : k \in FileIds }
               \cup { Basename(x) : x \in NameOpt \ {None} }
    IN  raw \cup { Idify(b) : b \in raw }
DestinationOf ==
    [a \in Accounts |-> [d \in Dates |-> [b \in Basenames |->
        NewFullname(a, NewFilename(d, b))]]]

\* Lines 145-157: "" when the destination is accepted, else the error.
MissingDirectoryDespiteMkdirs(new_fullname, ds, mk) == Dirname(new_fullname) \notin ds
MissingDirectory(new_fullname, ds, mk) == Dirname(new_fullname) \notin ds /\ ~mk
DestinationExistsInverted(new_fullname, fs, ow) == ow /\ new_fullname \in DOMAIN fs
DestinationExists(new_fullname, fs, ow) == ~ow /\ new_fullname \in DOMAIN fs
Validate(new_fullname, ds, fs, mk, ow) ==
    IF MissingDirectory(new_fullname, ds, mk) THEN "missing_directory"
    ELSE IF DestinationExists(new_fullname, fs, ow) THEN "destination_exists"
    ELSE ""

\* Lines 147-157: which validation errors set has_errors.
SetsHasErrors(kind) == kind \in {"missing_directory", "destination_exists"}

\* The loop's locals before the first iteration (and once they are dead).
NoLocals ==
    [ filename |-> None, importers |-> << >>, file_accounts |-> {},
      file_date |-> None, file_name |-> None, file_account |-> None,
      date |-> None, date_source |-> "", new_fullname |-> None, outcome |-> "",
      answers |-> << >> ]

\* Lines 67-86: a file that gets no destination: no importers, no account, or
\* several accounts.
UnresolvedWithoutSkip(k, m, file_accounts) ==
    [NoLocals EXCEPT !.filename = Filename(k),
                     !.importers = [j \in 1..m |-> ImporterName(j)],
                     !.file_accounts = file_accounts,
                     !.outcome = IF file_accounts = {} THEN "no_account"
                                 ELSE "ambiguous_accounts"]
Unresolved(k, m, file_accounts) ==
    [NoLocals EXCEPT !.filename = Filename(k),
                     !.importers = [j \in 1..m |-> ImporterName(j)],
                     !.file_accounts = file_accounts,
                     !.outcome = IF m = 0 THEN "skipped"
                                 ELSE IF file_accounts = {} THEN "no_account"
                                 ELSE "ambiguous_accounts"]

\* Lines 89-159: a file with one account, whose primary importer answers fdate
\* and fname.
Resolution(k, m, file_accounts, fdate, fname) ==
    LET file_account == CHOOSE a \in file_accounts : TRUE
        date == ResolveDate(fdate, MtimeDate(k))
        new_fullname ==
            DestinationOf[file_account][date][CleanBasename(fname, Filename(k), idify)]
        kind == Validate(new_fullname, dirs, files, mkdirs, overwrite)
    IN  [ filename |-> Filename(k),
          importers |-> [j \in 1..m |-> ImporterName(j)],
          file_accounts |-> file_accounts,
          file_date |-> fdate, file_name |-> fname,
          file_account |-> file_account, date |-> date,
          date_source |-> DateSource(fdate), new_fullname |-> new_fullname,
          outcome |-> IF kind = "" THEN "job" ELSE kind,
          answers |-> << >> ]

\* Lines 78 and 83: whether the file goes on to lines 89-159.
HasSomeAccount(m, file_accounts) == m > 0 /\ file_accounts # {}
HasOneAccount(m, file_accounts) == m > 0 /\ Cardinality(file_accounts) = 1

Resolved(l) == l.outcome \in {"job", "missing_directory", "destination_exists"}
IsError(l) == l.outcome \in {"no_account", "ambiguous_accounts",
                             "missing_directory", "destination_exists"}

\* Lines 135-143: the block written to logfile.
ReportBlock(k, l) ==
    [ filename |-> l.filename, importer |-> l.importers[1],
      account |-> l.file_account, date |-> MtimeDate(k),
      date_source |-> l.date_source, destination |-> l.new_fullname ]

\* ------------------------------------------------------------- find_imports
\* The candidates not yet yielded: the files that exist, after the last one.
Remaining == { k \in FileIds : k > n /\ Filename(k) \in DOMAIN files }
HasNext == Remaining # {}
NextFile == CHOOSE k \in Remaining : \A k2 \in Remaining : k <= k2

\* ------------------------------------------------------------------ actions
Running == [tag |-> "running", list |-> << >>]

\* The state at the call of file(): every candidate file is in place, and the
\* destination tree is empty, or holds the directory of one account, with or
\* without a file in it.
Init ==
    /\ dry_run \in BOOLEAN /\ mkdirs \in BOOLEAN /\ overwrite \in BOOLEAN
    /\ idify \in BOOLEAN /\ logfile \in BOOLEAN
    /\ \E acctdirs \in { {}, { <<"Assets", "A">> } }, pre \in BOOLEAN :
          /\ pre => <<"Assets", "A">> \in acctdirs
          /\ dirs = UNION { Prefixes(destination \o a) : a \in acctdirs }
                        \cup {destination}
          /\ files = [p \in { Filename(k) : k \in FileIds }
                            \cup (IF pre THEN {PreExisting} ELSE {}) |->
                        IF p = PreExisting THEN OldContent
                        ELSE Content(CHOOSE k \in FileIds : Filename(k) = p)]
    /\ files0 = files /\ dirs0 = dirs
    /\ pc = "resolve" /\ n = 0 /\ loc = NoLocals
    /\ jobs = << >> /\ has_errors = FALSE
    /\ errors = << >> /\ report = << >>
    /\ i = 0 /\ performed = << >>
    /\ result = Running /\ failed = 0
    /\ run = 1 /\ first = << >>

\* Lines 68, 81, 86, 150, 157 (continue) and the end of the loop body at line
\* 159: whatever the outcome for a file, the loop goes on to the next one.
StopsAtError(outcome) ==
    IF outcome \in {"no_account", "ambiguous_accounts",
                    "missing_directory", "destination_exists"}
    THEN "done" ELSE "resolve"
Continue(outcome) == "resolve"

\* Lines 61-159: one iteration of the loop over find_imports.
Record(k, l) ==
    /\ n' = k
    /\ pc' = Continue(l.outcome)
    /\ loc' = l
    /\ errors' = IF IsError(l)
                 THEN Append(errors, [kind |-> l.outcome, file |-> l.filename])
                 ELSE errors
    /\ report' = IF Resolved(l) /\ logfile
                 THEN Append(report, ReportBlock(k, l))
                 ELSE report
    /\ has_errors' = (has_errors \/ SetsHasErrors(l.outcome))
    /\ jobs' = IF l.outcome = "job"
               THEN Append(jobs, << l.filename, l.new_fullname >>)
               ELSE jobs

LoopBody ==
    /\ pc = "resolve" /\ HasNext
    /\ LET k == NextFile IN
       \E m \in 0..MaxImporters :
       \E accts \in [1..m -> AccountOpt] :
          LET file_accounts == FileAccounts(accts) IN
          IF HasOneAccount(m, file_accounts)
          THEN \E fdate \in DateOpt, fname \in NameOpt :
                  Record(k, Resolution(k, m, file_accounts, fdate, fname))
          ELSE Record(k, Unresolved(k, m, file_accounts))
    /\ UNCHANGED << args, calls, failed, files, dirs, files0, dirs0, i, performed,
                    result >>

\* Lines 163-164: after the loop.
AbortsOnErrorsOnly(dr, he) == he
Aborts(dr, he) == dr \/ he
MovesAfterFirstJob ==
    /\ pc = "resolve" /\ jobs # << >>
    /\ pc' = "move" /\ i' = 1
    /\ UNCHANGED << args, calls, failed, files, dirs, files0, dirs0, n, loc, jobs,
                    has_errors, errors, report, performed, result >>
AfterLoop ==
    /\ pc = "resolve" /\ ~HasNext
    /\ IF Aborts(dry_run, has_errors)
       THEN /\ pc' = "done"
            /\ result' = [tag |-> "None", list |-> << >>]
            /\ i' = i
       ELSE /\ pc' = "move"
            /\ i' = 1
            /\ result' = result
    /\ loc' = NoLocals
    /\ UNCHANGED << args, calls, failed, files, dirs, files0, dirs0, n, jobs,
                    has_errors, errors, report, performed >>

\* move_xdev_file, lines 182-191: the directory, then the copy.  Line 188
\* raises when the directory is missing and mkdirs is off, and copyfile raises
\* when the source is missing.
CopySucceeds(fs, src, dst) == Put(fs, dst, fs[src])
MoveCopy ==
    /\ pc = "move" /\ i <= Len(jobs)
    /\ LET src == jobs[i][1]
           dst == jobs[i][2]
           dst_dirname == Dirname(dst)
       IN  IF (~mkdirs /\ dst_dirname \notin dirs) \/ src \notin DOMAIN files
           THEN /\ pc' = "raised"
                /\ failed' = i
                /\ UNCHANGED << files, dirs >>
           ELSE /\ dirs' = dirs \cup Prefixes(dst_dirname)
                /\ files' = CopySucceeds(files, src, dst)
                /\ pc' = "remove"
                /\ failed' = failed
    /\ UNCHANGED << args, calls, files0, dirs0, n, loc, jobs, has_errors, errors,
                    report, i, performed, result >>

\* shutil.copyfile raises: before the destination is opened, or partway.
CopyFailsAndLoopGoesOn ==
    /\ pc = "move" /\ i <= Len(jobs)
    /\ LET dst == jobs[i][2]
       IN  /\ mkdirs \/ Dirname(dst) \in dirs
           /\ dirs' = dirs \cup Prefixes(Dirname(dst))
           /\ \/ files' = files
              \/ files' = Put(files, dst, PartialContent)
    /\ pc' = "move"
    /\ i' = i + 1
    /\ failed' = i
    /\ UNCHANGED << args, calls, files0, dirs0, n, loc, jobs, has_errors, errors,
                    report, performed, result >>
CopyFails ==
    /\ pc = "move" /\ i <= Len(jobs)
    /\ LET src == jobs[i][1]
           dst == jobs[i][2]
           dst_dirname == Dirname(dst)
       IN  /\ mkdirs \/ dst_dirname \in dirs
           /\ dirs' = dirs \cup Prefixes(dst_dirname)
           /\ \/ files' = files
              \/ files' = Put(files, dst, PartialContent)
    /\ pc' = "raised"
    /\ failed' = i
    /\ UNCHANGED << args, calls, files0, dirs0, n, loc, jobs, has_errors, errors,
                    report, i, performed, result >>

\* move_xdev_file, line 196, and the next turn of the loop at line 167.
MoveRemoveKeepsSource ==
    /\ pc = "remove"
    /\ performed' = Append(performed, jobs[i])
    /\ i' = i + 1
    /\ pc' = "move"
    /\ UNCHANGED << args, calls, failed, files, dirs, files0, dirs0, n, loc, jobs,
                    has_errors, errors, report, result >>
MoveRemove ==
    /\ pc = "remove"
    /\ files' = Remove(files, jobs[i][1])
    /\ performed' = Append(performed, jobs[i])
    /\ i' = i + 1
    /\ pc' = "move"
    /\ UNCHANGED << args, calls, failed, dirs, files0, dirs0, n, loc, jobs,
                    has_errors, errors, report, result >>

\* Line 170
ReturnJobs ==
    /\ pc = "move" /\ i > Len(jobs)
    /\ result' = [tag |-> "list", list |-> jobs]
    /\ pc' = "done"
    /\ UNCHANGED << args, calls, failed, files, dirs, files0, dirs0, n, loc, jobs,
                    has_errors, errors, report, i, performed >>

Next == LoopBody \/ AfterLoop \/ MoveCopy \/ CopyFails \/ MoveRemove \/ ReturnJobs

Spec == Init /\ [][Next]_vars

\* ------------------------------------------- the importers' answers, observed
\* What one importer answers for a file: file_account, file_date, file_name.
Answers == [account : AccountOpt, date : DateOpt, name : NameOpt]

\* Line 93: importer = importers[0]
Last(importers) == importers[Len(importers)]
Primary(importers) == importers[1]

\* The loop body of lines 61-159 again, with what every matching importer
\* answers for the file kept in the locals: file_account is asked of every
\* importer, file_date and file_name of the primary one.
LoopBodyObserved ==
    /\ pc = "resolve" /\ HasNext /\ loc.answers = << >>
    /\ LET k == NextFile IN
       \E m \in 0..MaxImporters :
       \E ans \in [1..m -> Answers] :
          LET file_accounts == FileAccounts([j \in 1..m |-> ans[j].account])
              l == IF HasOneAccount(m, file_accounts)
                   THEN Resolution(k, m, file_accounts,
                                   Primary(ans).date, Primary(ans).name)
                   ELSE Unresolved(k, m, file_accounts)
          IN  Record(k, [l EXCEPT !.answers = ans])
    /\ UNCHANGED << args, calls, failed, files, dirs, files0, dirs0, i, performed,
                    result >>

\* Line 61, at the head of the next iteration: the locals of the iteration
\* that ended are dead, and with them the answers it was given.
EndOfIteration ==
    /\ pc = "resolve" /\ loc.answers # << >>
    /\ loc' = NoLocals
    /\ UNCHANGED << args, calls, failed, files, dirs, files0, dirs0, pc, n, jobs,
                    has_errors, errors, report, i, performed, result >>

\* file() called with mkdirs and a logfile, as main() calls it (lines
\* 223-228), without overwrite, on an empty destination tree.
InitObserved ==
    /\ Init
    /\ ~overwrite /\ mkdirs /\ logfile
    /\ dirs = {destination}

NextObserved ==
    \/ LoopBodyObserved \/ EndOfIteration
    \/ AfterLoop \/ MoveCopy \/ CopyFails \/ MoveRemove \/ ReturnJobs

SpecObserved == InitObserved /\ [][NextObserved]_vars

\* ------------------------------------------------------------- a second call
\* After file() has returned its jobs, it is called again with the same
\* arguments.  The files it moved are gone from their source paths, unless
\* they have all been put there again (downloaded again) in the meantime.
RunAgain ==
    /\ pc = "done" /\ run = 1 /\ result.tag = "list"
    /\ run' = 2
    /\ first' = result.list
    /\ LET gone == { k \in FileIds : Filename(k) \notin DOMAIN files } IN
       \E back \in { {}, gone } :
          files' = [p \in (DOMAIN files) \cup { Filename(k) : k \in back } |->
                       IF p \in DOMAIN files THEN files[p]
                       ELSE Content(CHOOSE k \in back : Filename(k) = p)]
    /\ files0' = files' /\ dirs0' = dirs
    /\ pc' = "resolve" /\ n' = 0 /\ loc' = NoLocals
    /\ jobs' = << >> /\ has_errors' = FALSE
    /\ errors' = << >> /\ report' = << >>
    /\ i' = 0 /\ performed' = << >>
    /\ result' = Running /\ failed' = 0
    /\ UNCHANGED << args, dirs >>

\* The first call is made the way main() makes it (lines 223-228: mkdirs,
\* idify and a logfile), without --dry-run and with --no-overwrite, on a
\* destination tree that holds nothing yet.
InitRerun ==
    /\ Init
    /\ ~dry_run /\ ~overwrite /\ mkdirs /\ idify /\ logfile
    /\ dirs = {destination}

NextRerun == Next \/ RunAgain

SpecRerun == InitRerun /\ [][NextRerun]_vars

\* ------------------------------------------------------------------- claims
ErrorOf(kind, filename) == [kind |-> kind, file |-> filename]

\* C1, as claimed: once resolution has logged an error of any kind (no
\* account, ambiguous accounts, missing directory, destination exists), the
\* filesystem stays what it was when file() was called.
C1_AnyErrorLeavesFilesystemUntouched ==
    errors # << >> => files = files0 /\ dirs = dirs0

\* C2: with dry_run set nothing in the filesystem changes and no move is
\* performed, and a logfile holds, for every job, a block with the job's file
\* and its destination.
C2_DryRunMutatesNothing ==
    dry_run =>
        /\ files = files0 /\ dirs = dirs0 /\ performed = << >>
        /\ pc \in {"resolve", "done"}
        /\ logfile =>
              \A j \in DOMAIN jobs : \E r \in DOMAIN report :
                  /\ report[r].filename = jobs[j][1]
                  /\ report[r].destination = jobs[j][2]

C2_Witness ==
    /\ dry_run /\ logfile /\ pc = "done" /\ ~has_errors
    /\ Len(jobs) = MaxFiles /\ Len(report) = MaxFiles

\* C3, as claimed: no two jobs have the same destination path.
C3_UniqueDestinations ==
    \A a, b \in DOMAIN jobs : a # b => jobs[a][2] # jobs[b][2]

\* C4: a file matched by several importers whose file_account answers hold
\* more than one distinct non-None value gets an ambiguous-accounts error and
\* no job.
C4_AmbiguousAccountsNoJob ==
    (pc = "resolve" /\ Len(loc.importers) > 1 /\ Cardinality(loc.file_accounts) > 1) =>
        /\ errors # << >>
        /\ errors[Len(errors)] = ErrorOf("ambiguous_accounts", loc.filename)
        /\ \A j \in DOMAIN jobs : jobs[j][1] # loc.filename

C4_Witness ==
    /\ pc = "resolve" /\ Len(loc.importers) > 1
    /\ Cardinality(loc.file_accounts) > 1
    /\ jobs # << >>

\* C5: the iteration for a file with no matching importer adds no job, logs
\* no error, leaves has_errors, the logfile and the filesystem as they were.
C5_NoImportersSilentSkip ==
    [][ (pc = "resolve" /\ n' # n /\ loc'.importers = << >>) =>
            /\ jobs' = jobs /\ errors' = errors /\ has_errors' = has_errors
            /\ report' = report /\ files' = files /\ dirs' = dirs ]_vars

C5_Witness ==
    /\ pc = "resolve" /\ loc.filename # None /\ loc.importers = << >>
    /\ jobs # << >> /\ ~has_errors /\ errors = << >>

\* C6: for a file matched by exactly one importer that answers an account,
\* the directories of the destination under the root are that account, and
\* the destination's filename starts with the importer's file_date answer, or
\* with the file's modification date when that answer is None.
C6_SingleImporterAccountAndDate ==
    (pc = "resolve" /\ Len(loc.importers) = 1 /\ loc.file_accounts # {}) =>
        LET expected == IF loc.file_date # None THEN loc.file_date ELSE MtimeDate(n)
            full == loc.new_fullname
        IN  /\ loc.file_accounts = {loc.file_account}
            /\ SubSeq(full, 1, Len(destination)) = destination
            /\ SubSeq(full, Len(destination) + 1, Len(full) - 1) = loc.file_account
            /\ \E b \in Basenames :
                  Basename(full) = FormatDate(expected) \o "." \o b

C6_Witness ==
    /\ pc = "resolve" /\ Len(loc.importers) = 1 /\ loc.file_accounts # {}
    /\ loc.file_date = None /\ loc.outcome = "job"

\* C7, as claimed: at every state the content of every job's file is whole at
\* the job's source or whole at its destination.
C7_ContentAtSourceOrDestination ==
    \A j \in DOMAIN jobs :
        LET src == jobs[j][1]
            dst == jobs[j][2]
        IN  \/ src \in DOMAIN files /\ files[src] = files0[src]
            \/ dst \in DOMAIN files /\ files[dst] = files0[src]

\* C8: once the copy of a job has raised, file() is over: the jobs after it
\* are not attempted, their sources are in place with their content, and
\* their destinations hold what they held at the call, unless a job up to the
\* failing one has the same destination.
C8_NoJobAfterCopyFailure ==
    failed > 0 =>
        /\ pc = "raised" /\ i = failed /\ Len(performed) = failed - 1
        /\ \A j \in (failed + 1)..Len(jobs) :
              LET src == jobs[j][1]
                  dst == jobs[j][2]
              IN  /\ src \in DOMAIN files /\ files[src] = files0[src]
                  /\ \/ dst \notin DOMAIN files
                     \/ dst \in DOMAIN files0 /\ files[dst] = files0[dst]
                     \/ \E e \in 1..failed : jobs[e][2] = dst

C8_Witness == failed > 0 /\ failed < Len(jobs) /\ pc = "raised"

\* C9, as claimed: when file() has returned, it has returned None with no
\* move performed if dry_run was set or any file-level error was logged, and
\* otherwise the list of the moves it performed, in order.
C9_ReturnsJobsExactlyWhenExecuted ==
    pc = "done" =>
        IF dry_run \/ errors # << >>
        THEN result.tag = "None" /\ performed = << >> /\ files = files0
        ELSE result.tag = "list" /\ result.list = performed

\* C10, as claimed: a second call on the source set as the first call left it
\* (no moved file has been put back) logs a destination-exists error for
\* every file the first call moved.
C10_SecondRunErrsForEveryMovedFile ==
    (run = 2 /\ pc = "done" /\ \A j \in DOMAIN first : first[j][1] \notin DOMAIN files0) =>
        \A j \in DOMAIN first : \E e \in DOMAIN errors :
            errors[e] = ErrorOf("destination_exists", first[j][1])

\* C10, as amended: in a second call with overwrite off, only files that are
\* at their source path get an error; a file gets a destination-exists error
\* exactly when the destination resolved for it exists; and once such an
\* error is logged the call changes nothing in the filesystem, does not raise
\* and returns None.
C10_SecondRunErrsForFilesBackInPlace ==
    run = 2 =>
        /\ \A e \in DOMAIN errors : errors[e].file \in DOMAIN files0
        /\ (pc = "resolve" /\ loc.new_fullname # None) =>
              /\ (loc.outcome = "destination_exists") <=> (loc.new_fullname \in DOMAIN files)
              /\ (loc.new_fullname \in DOMAIN files) =>
                    /\ has_errors
                    /\ errors[Len(errors)] = ErrorOf("destination_exists", loc.filename)
                    /\ \A j \in DOMAIN jobs : jobs[j][1] # loc.filename
        /\ has_errors =>
              /\ pc \in {"resolve", "done"}
              /\ files = files0 /\ dirs = dirs0
              /\ pc = "done" => result.tag = "None"

C10_Witness ==
    /\ run = 2 /\ pc = "done" /\ result.tag = "None"
    /\ \E j \in DOMAIN first : \E e \in DOMAIN errors :
          errors[e] = ErrorOf("destination_exists", first[j][1])

\* Reading a destination back, the way a documents directory is read: the
\* account is the directories under the root, the date is the YYYY-MM-DD the
\* filename starts with (None when it does not start with one).
DigitOf == [c \in {"0", "1", "2", "3", "4", "5", "6", "7", "8", "9"} |->
               CHOOSE v \in 0..9 : ToString(v) = c]
Char(s, j) == SubSeq(s, j, j)
Digit(s, j) == DigitOf[Char(s, j)]
HasDatePrefix(s) ==
    /\ Len(s) >= 10
    /\ \A j \in {1, 2, 3, 4, 6, 7, 9, 10} : Char(s, j) \in DOMAIN DigitOf
    /\ Char(s, 5) = "-" /\ Char(s, 8) = "-"
DatePrefix(s) ==
    IF HasDatePrefix(s)
    THEN << 1000 * Digit(s, 1) + 100 * Digit(s, 2) + 10 * Digit(s, 3) + Digit(s, 4),
            10 * Digit(s, 6) + Digit(s, 7),
            10 * Digit(s, 9) + Digit(s, 10) >>
    ELSE None
UnderRoot(p) == Len(p) > Len(destination) /\ SubSeq(p, 1, Len(destination)) = destination
AccountOfPath(p) == SubSeq(p, Len(destination) + 1, Len(p) - 1)

\* C11: the destination of a job, read back, gives the account and the date
\* resolved for the job's file: the directories between the root and the
\* filename are the account's components, and the filename starts with the
\* date as YYYY-MM-DD.
C11_DestinationRoundTrip ==
    (pc = "resolve" /\ loc.outcome = "job") =>
        LET job == jobs[Len(jobs)]
        IN  /\ job[1] = loc.filename
            /\ UnderRoot(job[2])
            /\ AccountOfPath(job[2]) = loc.file_account
            /\ DatePrefix(Basename(job[2])) = loc.date

C11_Witness ==
    /\ pc = "resolve" /\ loc.outcome = "job" /\ Len(jobs) = MaxFiles
    /\ loc.file_date # None /\ loc.file_name # None

\* C12: resolution ends only when every candidate file has been examined,
\* whatever errors were logged on the way; every examined file has at most
\* one decision, a job or an error, and the file just examined has the job or
\* the error of its outcome as the last one appended.
C12_ErrorsDoNotStopResolution ==
    /\ pc # "resolve" => n = MaxFiles
    /\ \A k \in 1..n :
          Cardinality({ j \in DOMAIN jobs : jobs[j][1] = Filename(k) })
            + Cardinality({ e \in DOMAIN errors : errors[e].file = Filename(k) }) <= 1
    /\ (pc = "resolve" /\ n > 0) =>
          /\ loc.filename = Filename(n)
          /\ loc.outcome \in {"skipped", "job", "no_account", "ambiguous_accounts",
                               "missing_directory", "destination_exists"}
          /\ loc.outcome = "job" =>
                jobs # << >> /\ jobs[Len(jobs)] = << loc.filename, loc.new_fullname >>
          /\ IsError(loc) =>
                errors # << >> /\ errors[Len(errors)] = ErrorOf(loc.outcome, loc.filename)

C12_Witness ==
    /\ pc = "done" /\ n = MaxFiles
    /\ Len(errors) = MaxFiles - 1
    /\ errors[1].file = Filename(1)
    /\ \E j \in DOMAIN jobs : jobs[j][1] = Filename(MaxFiles)

\* C13, as claimed: with a logfile attached, every file that has at least one
\* matching importer gets a report block, whatever its outcome.
C13_ReportBlockForEveryProcessedFile ==
    (logfile /\ pc = "resolve" /\ n > 0 /\ loc.importers # << >>) =>
        /\ report # << >>
        /\ report[Len(report)].filename = loc.filename

\* C14: a step that changes the filesystem is taken only when every candidate
\* file has been examined, and from the end of resolution on nothing is added
\* to the errors, the report or the jobs.
C14_ResolutionBeforeMutation ==
    [][ /\ (files' # files \/ dirs' # dirs) =>
              /\ pc \in {"move", "remove"} /\ n = MaxFiles
              /\ \A k \in FileIds : Filename(k) \in DOMAIN files0 => k <= n
        /\ pc # "resolve" =>
              /\ errors' = errors /\ report' = report /\ jobs' = jobs
              /\ has_errors' = has_errors /\ n' = n ]_vars

C14_Witness ==
    /\ pc = "done" /\ files # files0 /\ dirs # dirs0
    /\ Len(report) = MaxFiles /\ Len(performed) = MaxFiles

\* C15: in the move phase the moves completed are the first jobs, in the
\* order of jobs; the sources of the completed moves are removed, the job
\* being moved is the next one, and no later job has been touched: its source
\* is in place with its content.
C15_JobsMovedInOrder ==
    pc \in {"move", "remove", "raised"} \/ (pc = "done" /\ result.tag = "list") =>
        /\ Len(performed) <= Len(jobs)
        /\ performed = SubSeq(jobs, 1, Len(performed))
        /\ \A j \in DOMAIN performed : jobs[j][1] \notin DOMAIN files
        /\ pc = "done" => performed = jobs
        /\ pc # "done" =>
              /\ Len(performed) = i - 1
              /\ \A j \in (i + 1)..Len(jobs) :
                    jobs[j][1] \in DOMAIN files /\ files[jobs[j][1]] = files0[jobs[j][1]]
        /\ pc = "remove" =>
              /\ jobs[i][1] \in DOMAIN files
              /\ jobs[i][2] \in DOMAIN files
              /\ files[jobs[i][2]] = files0[jobs[i][1]]

C15_Witness ==
    /\ pc = "remove" /\ i = MaxFiles /\ Len(jobs) = MaxFiles
    /\ jobs[1][2] # jobs[2][2]

\* C17: for a file with a resolved account, an error of validation is logged
\* and no job appended exactly when the destination's directory is missing
\* with mkdirs off or the destination exists with overwrite off; otherwise
\* exactly one job (file, destination) is appended and no error logged.
C17_ValidationErrorIff ==
    (pc = "resolve" /\ loc.file_account # None) =>
        LET missing == Dirname(loc.new_fullname) \notin dirs /\ ~mkdirs
            exists == loc.new_fullname \in DOMAIN files /\ ~overwrite
            mine == { j \in DOMAIN jobs : jobs[j][1] = loc.filename }
            errs == { e \in DOMAIN errors : errors[e].file = loc.filename }
        IN  IF missing \/ exists
            THEN /\ mine = {} /\ errs = {Len(errors)} /\ has_errors
                 /\ errors[Len(errors)].kind =
                        (IF missing THEN "missing_directory" ELSE "destination_exists")
            ELSE /\ errs = {} /\ mine = {Len(jobs)}
                 /\ jobs[Len(jobs)] = << loc.filename, loc.new_fullname >>

C17_Witness ==
    /\ pc = "resolve" /\ loc.outcome = "missing_directory" /\ mkdirs = FALSE
    /\ jobs # << >>

\* C18, as claimed: the block written for a file is tagged "extracted" when
\* the primary importer's file_date answered a date and "mtime" when the
\* modification date was used, and shows the date of the destination filename.
C18_ReportTagsDateSource ==
    (logfile /\ pc = "resolve" /\ loc.file_account # None) =>
        LET block == report[Len(report)]
        IN  /\ block.filename = loc.filename
            /\ block.date_source = (IF loc.file_date # None THEN "extracted" ELSE "mtime")
            /\ block.date = loc.date
            /\ block.date = DatePrefix(Basename(block.destination))

\* C20, as claimed: with overwrite off, when file() has returned, every
\* content a file held at the call is held by a file: no move has overwritten
\* a file, whether there before the call or written by an earlier job.
C20_NoContentLost ==
    (~overwrite /\ pc = "done") =>
        \A p \in DOMAIN files0 : \E q \in DOMAIN files : files[q] = files0[p]

\* C16: file_account is asked of every matching importer and None answers are
\* dropped: when no answer is left the file gets a no-account error and no
\* job; when one distinct answer is left it is the account of the file, and
\* of its destination, also when the first importer answered None.
C16_AccountFromAnyImporter ==
    (pc = "resolve" /\ loc.answers # << >>) =>
        LET given == { loc.answers[j].account : j \in DOMAIN loc.answers } \ {None}
            mine == { j \in DOMAIN jobs : jobs[j][1] = loc.filename }
        IN  /\ given = {} =>
                  /\ mine = {}
                  /\ errors # << >>
                  /\ errors[Len(errors)] = ErrorOf("no_account", loc.filename)
            /\ Cardinality(given) = 1 =>
                  /\ given = {loc.file_account}
                  /\ AccountOfPath(loc.new_fullname) = loc.file_account
                  /\ \A e \in DOMAIN errors : errors[e].file = loc.filename =>
                        errors[e].kind \in {"missing_directory", "destination_exists"}
                  /\ loc.outcome = "job" =>
                        mine = {Len(jobs)} /\ jobs[Len(jobs)][2] = loc.new_fullname

C16_Witness ==
    /\ pc = "resolve" /\ Len(loc.answers) > 1
    /\ loc.answers[1].account = None
    /\ loc.answers[Len(loc.answers)].account # None
    /\ loc.outcome = "job"

\* C19: for a file matched by several importers, the destination's filename
\* is the date and the name the first importer answers (the modification
\* date and the file's own name where it answers None), whatever the later
\* importers answer.
C19_PrimaryAloneGivesDateAndName ==
    (pc = "resolve" /\ Len(loc.answers) > 1 /\ loc.new_fullname # None) =>
        LET first_answer == loc.answers[1]
            date == IF first_answer.date = None THEN MtimeDate(n) ELSE first_answer.date
            name == IF first_answer.name = None THEN loc.filename ELSE first_answer.name
            base == IF idify THEN Idify(Basename(name)) ELSE Basename(name)
        IN  /\ Basename(loc.new_fullname) = FormatDate(date) \o "." \o base
            /\ loc.date = date

C19_Witness ==
    /\ pc = "resolve" /\ Len(loc.answers) > 1 /\ loc.outcome = "job"
    /\ loc.answers[1].date = None /\ loc.answers[2].date # None
    /\ loc.answers[1].name # None /\ loc.answers[2].name = None

====
